---- MODULE Spec2Model ----
(***************************************************************************)
(* Model of the jokes client library (src/joke.go): the Request builder    *)
(* (validated setters, Query, URL, Get) and the response parser            *)
(* (ParseResponse).                                                        *)
(*                                                                         *)
(* Go strings are modelled as sequences of one-character strings, so that  *)
(* joining, quoting (%q), decimal formatting (%d) and URL escaping are     *)
(* computed character by character as the library does.                    *)
(***************************************************************************)
EXTENDS Integers, Sequences, FiniteSets

VARIABLES
    req,      \* the Request value the caller holds
    call,     \* the last validated-setter call: [op, arg]
    err,      \* the error that call returned
    applied,  \* the last pure method applied to req ("none" before any)
    query,    \* the url.Values returned by the last Query()
    out,      \* the string returned by the last String()/URL()
    pc,       \* position of the GetUsingClient / ParseResponse call
    client,   \* the client argument of GetUsingClient ("nil" or "custom")
    gets,     \* GETs issued to the transport: sequence of [client, url]
    parses,   \* payloads handed to ParseResponse, in call order
    res,      \* what cli.Get returned: [e, body]
    jsn,      \* what ioutil.ReadAll returned: [e, bytes]
    ret,      \* what the call returned: [r, e]
    idarg     \* the argument of the last ID() call: <<n>>, or <<>> before any

vars ==
    <<req, call, err, applied, query, out, pc, client, gets, parses, res, jsn,
      ret, idarg>>

-----------------------------------------------------------------------------
(* Bounds of the model *)

\* tokens the two lists of a Request may hold together in the setter runs
MaxAdds == 2
\* length of the lists drawn for the Query/URL/String runs
MaxList == 2
\* length of the `jokes` array of a multi-joke payload
MaxJokes == 2
\* GETs after which the transport is asked no more
MaxGets == 3

-----------------------------------------------------------------------------
(* Strings *)

EmptyStr == <<>>

RECURSIVE Concat(_)
\* concatenation of a sequence of strings
Concat(ss) == IF ss = <<>> THEN <<>> ELSE Head(ss) \o Concat(Tail(ss))

\* all sequences over S of length at most n
SeqsUpTo(S, n) == UNION {[1..k -> S] : k \in 0..n}

-----------------------------------------------------------------------------
(* Enumerations: exact tokens *)

Cs == <<"c", "s">>
De == <<"d", "e">>
En == <<"e", "n">>
Es == <<"e", "s">>
Fr == <<"f", "r">>
Pt == <<"p", "t">>
LangVocab == {Cs, De, En, Es, Fr, Pt}

Nsfw      == <<"n", "s", "f", "w">>
Religious == <<"r", "e", "l", "i", "g", "i", "o", "u", "s">>
Political == <<"p", "o", "l", "i", "t", "i", "c", "a", "l">>
Racist    == <<"r", "a", "c", "i", "s", "t">>
Sexist    == <<"s", "e", "x", "i", "s", "t">>
Explicit  == <<"e", "x", "p", "l", "i", "c", "i", "t">>
FlagVocab == {Nsfw, Religious, Political, Racist, Sexist, Explicit}

Single  == <<"s", "i", "n", "g", "l", "e">>
Twopart == <<"t", "w", "o", "p", "a", "r", "t">>
TypeVocab == {Single, Twopart}

Any         == <<"A", "n", "y">>
Christmas   == <<"C", "h", "r", "i", "s", "t", "m", "a", "s">>
Dark        == <<"D", "a", "r", "k">>
Misc        == <<"M", "i", "s", "c">>
Programming == <<"P", "r", "o", "g", "r", "a", "m", "m", "i", "n", "g">>
Pun         == <<"P", "u", "n">>
Spooky      == <<"S", "p", "o", "o", "k", "y">>
CategoryVocab == {Any, Misc, Programming, Dark, Pun, Spooky, Christmas}

-----------------------------------------------------------------------------
(* Errors *)

ZeroErrorResponse ==
    [Cause |-> <<>>, Code |-> 0, Info |-> EmptyStr, Internal |-> FALSE,
     Message |-> EmptyStr, Time |-> 0]

\* an error value: its dynamic type, its Error() text, and the ErrorResponse
\* it carries when it is one
MkError(kind, text, resp) == [kind |-> kind, text |-> text, resp |-> resp]

NilError == MkError("nil", EmptyStr, ZeroErrorResponse)

\* errors.New / fmt.Errorf: an error holding a text
ErrorString(text) == MkError("errorString", text, ZeroErrorResponse)

\* strconv.Quote of one character, for the characters the model draws:
\* a double quote and a backslash are backslash-escaped, a newline is
\* written \n, every other (printable ASCII) character stands for itself
QuoteChar(c) ==
    CASE c = "\"" -> <<"\\", "\"">>
      [] c = "\\" -> <<"\\", "\\">>
      [] c = "\n" -> <<"\\", "n">>
      [] OTHER    -> <<c>>

RECURSIVE QuoteBody(_)
QuoteBody(s) == IF s = <<>> THEN <<>> ELSE QuoteChar(Head(s)) \o QuoteBody(Tail(s))

\* the %q verb: a double-quoted Go string literal
Quote(s) == <<"\"">> \o QuoteBody(s) \o <<"\"">>

InvalidLangPrefix ==
    <<"i", "n", "v", "a", "l", "i", "d", " ", "l", "a", "n", "g", " ",
      "c", "o", "d", "e", ":", " ">>
InvalidFlagPrefix ==
    <<"i", "n", "v", "a", "l", "i", "d", " ", "f", "l", "a", "g", ":", " ">>
InvalidTypePrefix ==
    <<"i", "n", "v", "a", "l", "i", "d", " ", "t", "y", "p", "e", ":", " ">>
InvalidCategoryPrefix ==
    <<"i", "n", "v", "a", "l", "i", "d", " ", "c", "a", "t", "e", "g", "o",
      "r", "y", ":", " ">>

-----------------------------------------------------------------------------
(* The validated setters: each returns the receiver after the call and the *)
(* error returned                                                          *)

\* Lang.Set assigning without validating
LangSet_Unvalidated(s, l) == [recv |-> l, err |-> NilError]

LangSet(s, l) ==
    IF l \in LangVocab
        THEN [recv |-> l, err |-> NilError]
        ELSE [recv |-> s, err |-> ErrorString(InvalidLangPrefix \o Quote(l))]

\* Flags.Add appending before it validates
FlagsAdd_AppendFirst(s, f) ==
    IF f \in FlagVocab
        THEN [recv |-> Append(s, f), err |-> NilError]
        ELSE [recv |-> Append(s, f),
              err |-> ErrorString(InvalidFlagPrefix \o Quote(f))]

FlagsAdd(s, f) ==
    IF f \in FlagVocab
        THEN [recv |-> Append(s, f), err |-> NilError]
        ELSE [recv |-> s, err |-> ErrorString(InvalidFlagPrefix \o Quote(f))]

TypeSet(s, t) ==
    IF t \in TypeVocab
        THEN [recv |-> t, err |-> NilError]
        ELSE [recv |-> s, err |-> ErrorString(InvalidTypePrefix \o Quote(t))]

\* Categories.Add keeping the list free of duplicates
CategoriesAdd_Dedup(s, c) ==
    IF c \in CategoryVocab
        THEN [recv |-> IF \E i \in 1..Len(s) : s[i] = c THEN s ELSE Append(s, c),
              err |-> NilError]
        ELSE [recv |-> s, err |-> ErrorString(InvalidCategoryPrefix \o Quote(c))]

CategoriesAdd(s, c) ==
    IF c \in CategoryVocab
        THEN [recv |-> Append(s, c), err |-> NilError]
        ELSE [recv |-> s, err |-> ErrorString(InvalidCategoryPrefix \o Quote(c))]

-----------------------------------------------------------------------------
(* Request *)

NilID == [nil |-> TRUE, Lower |-> 0, Upper |-> 0]

\* &IDRange{lo, up}
IDRangeOf(lo, up) == [nil |-> FALSE, Lower |-> lo, Upper |-> up]

\* ID(id): the range of a single joke id
ID(id) == IDRangeOf(id, 0)

NewRequest ==
    [Amount |-> 0, Blacklist |-> <<>>, Category |-> <<>>, Contains |-> EmptyStr,
     ID |-> NilID, Lang |-> EmptyStr, Safe |-> FALSE, Type |-> EmptyStr]

-----------------------------------------------------------------------------
(* Characters: printable ASCII in code order, for comparing and escaping;   *)
(* the grave accent (code 96), which the models never draw, is spelled out *)

Ascii ==
    <<" ", "!", "\"", "#", "$", "%", "&", "'", "(", ")", "*", "+",
      ",", "-", ".", "/", "0", "1", "2", "3", "4", "5", "6", "7",
      "8", "9", ":", ";", "<", "=", ">", "?", "@", "A", "B", "C",
      "D", "E", "F", "G", "H", "I", "J", "K", "L", "M", "N", "O",
      "P", "Q", "R", "S", "T", "U", "V", "W", "X", "Y", "Z", "[",
      "\\", "]", "^", "_", "grave", "a", "b", "c", "d", "e", "f", "g",
      "h", "i", "j", "k", "l", "m", "n", "o", "p", "q", "r", "s",
      "t", "u", "v", "w", "x", "y", "z", "{", "|", "}", "~">>

OrdTable ==
    [c \in {Ascii[i] : i \in 1..Len(Ascii)} |->
        31 + CHOOSE i \in 1..Len(Ascii) : Ascii[i] = c]

\* the byte value of a printable ASCII character
Ord(c) == OrdTable[c]

IsAlnum(c) ==
    \/ Ord(c) \in 48..57
    \/ Ord(c) \in 65..90
    \/ Ord(c) \in 97..122

HexDigits ==
    <<"0", "1", "2", "3", "4", "5", "6", "7", "8", "9", "A", "B", "C", "D", "E", "F">>

\* %XX
PercentEncode(c) ==
    <<"%", HexDigits[(Ord(c) \div 16) + 1], HexDigits[(Ord(c) % 16) + 1]>>

RECURSIVE StrLess(_, _)
\* a < b as Go compares strings: bytewise, a proper prefix first
StrLess(a, b) ==
    IF b = <<>> THEN FALSE
    ELSE IF a = <<>> THEN TRUE
    ELSE IF Head(a) # Head(b) THEN Ord(Head(a)) < Ord(Head(b))
    ELSE StrLess(Tail(a), Tail(b))

-----------------------------------------------------------------------------
(* Formatting *)

DigitChars == <<"0", "1", "2", "3", "4", "5", "6", "7", "8", "9">>

RECURSIVE Digits(_)
Digits(n) ==
    IF n < 10 THEN <<DigitChars[n + 1]>>
    ELSE Digits(n \div 10) \o <<DigitChars[(n % 10) + 1]>>

\* the %d verb
Itoa(n) == IF n < 0 THEN <<"-">> \o Digits(-n) ELSE Digits(n)

RECURSIVE FlagsStringFrom(_, _)
\* the loop of Flags.String from the element at (1-based) position i on
FlagsStringFrom(s, i) ==
    IF i > Len(s) THEN EmptyStr
    ELSE s[i] \o (IF i - 1 < Len(s) - 1 THEN <<",">> ELSE EmptyStr)
              \o FlagsStringFrom(s, i + 1)

\* Flags.String writing the separator after every element
FlagsString_Trailing(s) == Concat([i \in 1..Len(s) |-> s[i] \o <<",">>])

FlagsString(s) == FlagsStringFrom(s, 1)

RECURSIVE CategoriesStringFrom(_, _)
\* the loop of Categories.String from the element at (1-based) position i on
CategoriesStringFrom(s, i) ==
    IF i > Len(s) THEN EmptyStr
    ELSE s[i] \o (IF i - 1 < Len(s) - 1 THEN <<",">> ELSE EmptyStr)
              \o CategoriesStringFrom(s, i + 1)

CategoriesString(s) == CategoriesStringFrom(s, 1)

\* IDRange.String writing the upper bound whenever it differs from the lower
IDRangeString_UpperUnlessEqual(r) ==
    IF r.Upper # r.Lower
        THEN Itoa(r.Lower) \o <<"-">> \o Itoa(r.Upper)
        ELSE Itoa(r.Lower)

IDRangeString(r) ==
    IF r.Upper > 0
        THEN Itoa(r.Lower) \o <<"-">> \o Itoa(r.Upper)
        ELSE Itoa(r.Lower)

-----------------------------------------------------------------------------
(* Query *)

KeyAmount    == <<"a", "m", "o", "u", "n", "t">>
KeyBlacklist == <<"b", "l", "a", "c", "k", "l", "i", "s", "t", "F", "l", "a", "g", "s">>
KeyContains  == <<"c", "o", "n", "t", "a", "i", "n", "s">>
KeyIDRange   == <<"i", "d", "R", "a", "n", "g", "e">>
KeyLang      == <<"l", "a", "n", "g">>
KeySafe      == <<"s", "a", "f", "e", "-", "m", "o", "d", "e">>
KeyType      == <<"t", "y", "p", "e">>

\* url.Values{}: a map from keys to lists of values
NoValues == <<>>

\* url.Values.Set: the key maps to the one value
ValuesSet(v, key, value) ==
    [k \in (DOMAIN v) \cup {key} |-> IF k = key THEN <<value>> ELSE v[k]]

\* Request.Query emitting safe-mode whatever Safe is
Query_SafeAlways(j) ==
    LET v1 == IF j.Amount > 0 THEN ValuesSet(NoValues, KeyAmount, Itoa(j.Amount)) ELSE NoValues
        v2 == IF Len(j.Blacklist) > 0
                  THEN ValuesSet(v1, KeyBlacklist, FlagsString(j.Blacklist)) ELSE v1
        v3 == IF j.Contains # EmptyStr THEN ValuesSet(v2, KeyContains, j.Contains) ELSE v2
        v4 == IF ~j.ID.nil THEN ValuesSet(v3, KeyIDRange, IDRangeString(j.ID)) ELSE v3
        v5 == IF j.Lang # EmptyStr THEN ValuesSet(v4, KeyLang, j.Lang) ELSE v4
        v6 == ValuesSet(v5, KeySafe, EmptyStr)
        v7 == IF j.Type # EmptyStr THEN ValuesSet(v6, KeyType, j.Type) ELSE v6
    IN  v7

Query(j) ==
    LET v1 == IF j.Amount > 0 THEN ValuesSet(NoValues, KeyAmount, Itoa(j.Amount)) ELSE NoValues
        v2 == IF Len(j.Blacklist) > 0
                  THEN ValuesSet(v1, KeyBlacklist, FlagsString(j.Blacklist)) ELSE v1
        v3 == IF j.Contains # EmptyStr THEN ValuesSet(v2, KeyContains, j.Contains) ELSE v2
        v4 == IF ~j.ID.nil THEN ValuesSet(v3, KeyIDRange, IDRangeString(j.ID)) ELSE v3
        v5 == IF j.Lang # EmptyStr THEN ValuesSet(v4, KeyLang, j.Lang) ELSE v4
        v6 == IF j.Safe THEN ValuesSet(v5, KeySafe, EmptyStr) ELSE v5
        v7 == IF j.Type # EmptyStr THEN ValuesSet(v6, KeyType, j.Type) ELSE v6
    IN  v7

-----------------------------------------------------------------------------
(* URL *)

\* url.QueryEscape of one character: letters, digits and - _ . ~ stand for
\* themselves, a space becomes +, everything else is percent-encoded
QueryEscapeChar(c) ==
    IF IsAlnum(c) \/ c \in {"-", "_", ".", "~"} THEN <<c>>
    ELSE IF c = " " THEN <<"+">>
    ELSE PercentEncode(c)

RECURSIVE QueryEscape(_)
QueryEscape(s) ==
    IF s = <<>> THEN <<>> ELSE QueryEscapeChar(Head(s)) \o QueryEscape(Tail(s))

\* escaping of a URL path: letters, digits, - _ . ~ and $ & + , / : ; = @
\* stand for themselves, everything else is percent-encoded
PathEscapeChar(c) ==
    IF \/ IsAlnum(c)
       \/ c \in {"-", "_", ".", "~", "$", "&", "+", ",", "/", ":", ";", "=", "@"}
        THEN <<c>>
        ELSE PercentEncode(c)

RECURSIVE EscapedPath(_)
EscapedPath(s) ==
    IF s = <<>> THEN <<>> ELSE PathEscapeChar(Head(s)) \o EscapedPath(Tail(s))

RECURSIVE SortedKeys(_)
\* the keys in increasing order
SortedKeys(ks) ==
    IF ks = {} THEN <<>>
    ELSE LET m == CHOOSE k \in ks : \A o \in ks : o = k \/ StrLess(k, o)
         IN  <<m>> \o SortedKeys(ks \ {m})

\* key=value for every value of key k, each after an & unless first
EncodeKey(v, k, first) ==
    Concat([i \in 1..Len(v[k]) |->
               (IF first /\ i = 1 THEN EmptyStr ELSE <<"&">>)
                   \o QueryEscape(k) \o <<"=">> \o QueryEscape(v[k][i])])

\* url.Values.Encode: key=value pairs in key order, joined by &
Encode(v) ==
    LET ks == SortedKeys(DOMAIN v) IN
    Concat([n \in 1..Len(ks) |-> EncodeKey(v, ks[n], n = 1)])

BaseScheme == <<"h", "t", "t", "p", "s">>
BaseHost   == <<"v", "2", ".", "j", "o", "k", "e", "a", "p", "i", ".", "d", "e", "v">>

\* url.URL.String for a URL with a scheme, a host, a path and a raw query
URLString(scheme, host, path, rawQuery) ==
    scheme \o <<":">> \o <<"/", "/">> \o host
        \o (IF EscapedPath(path) # <<>> /\ Head(EscapedPath(path)) # "/"
                THEN <<"/">> ELSE EmptyStr)
        \o EscapedPath(path)
        \o (IF rawQuery # EmptyStr THEN <<"?">> \o rawQuery ELSE EmptyStr)

JokePath == <<"j", "o", "k", "e", "/">>

\* Request.URL using the Category list as it is, also when it is empty
URL_NoDefaultCategory(j) ==
    URLString(BaseScheme, BaseHost, JokePath \o CategoriesString(j.Category),
              Encode(Query(j)))

URL(j) ==
    LET cat == IF Len(j.Category) = 0 THEN <<Any>> ELSE j.Category IN
    URLString(BaseScheme, BaseHost, JokePath \o CategoriesString(cat),
              Encode(Query(j)))

-----------------------------------------------------------------------------
(* Raw strings a caller passes to the setters *)

StrInvalid == <<"i", "n", "v", "a", "l", "i", "d">>
StrLowerAny == <<"a", "n", "y">>
StrQuoted == <<"a", "\"", "b", "\\">>

InvalidInputs == {StrInvalid, EmptyStr, StrLowerAny, StrQuoted}

NoCall == [op |-> "none", arg |-> EmptyStr]

\* no ID() call yet; <<n>> after ID(n)
NoArg == <<>>

Idle ==
    /\ applied = "none"
    /\ idarg = NoArg
    /\ query = <<>>
    /\ out = EmptyStr
    /\ pc = "idle"
    /\ client = "nil"
    /\ gets = <<>>
    /\ parses = <<>>

-----------------------------------------------------------------------------
(* JSON payloads, as encoding/json sees them after scanning: a payload is  *)
(* invalid text, a top-level null, a top-level array, or an object; an     *)
(* object is a record over the keys the decoders look at, a key that is    *)
(* not present holding Absent.  Keys the decoders ignore are left out.     *)

JV(t, b, n, s) == [t |-> t, b |-> b, n |-> n, s |-> s]
Absent   == JV("absent", FALSE, 0, EmptyStr)
JNull    == JV("null", FALSE, 0, EmptyStr)
JBool(b) == JV("bool", b, 0, EmptyStr)
JNum(n)  == JV("num", FALSE, n, EmptyStr)
JStr(s)  == JV("str", FALSE, 0, s)

\* the value of a `flags` key: an object of booleans, or something else
JFlags(t, m) == [t |-> t, m |-> m]
\* the value of a `jokes` or `causedBy` key: an array, or something else
JArr(t, a) == [t |-> t, a |-> a]

Has(v) == v.t # "absent"

\* what json.Unmarshal accepts for a Go string, int, bool, map[Flag]bool and
\* []string field: the matching JSON type, or null or an absent key, which
\* leave the field at its zero value
FitsString(v) == v.t \in {"absent", "null", "str"}
AsString(v)   == IF v.t = "str" THEN v.s ELSE EmptyStr
FitsInt(v)    == v.t \in {"absent", "null", "num"}
AsInt(v)      == IF v.t = "num" THEN v.n ELSE 0
FitsBool(v)   == v.t \in {"absent", "null", "bool"}
AsBool(v)     == IF v.t = "bool" THEN v.b ELSE FALSE
FitsFlags(v)  == v.t \in {"absent", "null", "obj"}
AsFlags(v)    == IF v.t = "obj" THEN v.m ELSE <<>>
FitsStrings(v) ==
    /\ v.t \in {"absent", "null", "arr"}
    /\ v.t = "arr" => \A i \in 1..Len(v.a) : v.a[i].t \in {"null", "str"}
AsStrings(v) ==
    IF v.t = "arr" THEN [i \in 1..Len(v.a) |-> AsString(v.a[i])] ELSE <<>>

\* the errors json.Unmarshal returns; their texts are the library's and are
\* not modelled
SyntaxError        == MkError("SyntaxError", EmptyStr, ZeroErrorResponse)
UnmarshalTypeError == MkError("UnmarshalTypeError", EmptyStr, ZeroErrorResponse)

ZeroJoke ==
    [Category |-> EmptyStr, Delivery |-> EmptyStr, Flags |-> <<>>, Id |-> 0,
     Joke |-> EmptyStr, Lang |-> EmptyStr, Safe |-> FALSE, Setup |-> EmptyStr,
     Type |-> EmptyStr]

\* json.Unmarshal of an object into a Joke
UnmarshalJoke(o) ==
    [ok |-> /\ FitsString(o.category) /\ FitsString(o.delivery)
            /\ FitsFlags(o.flags) /\ FitsInt(o.id) /\ FitsString(o.joke)
            /\ FitsString(o.lang) /\ FitsBool(o.safe) /\ FitsString(o.setup)
            /\ FitsString(o.type),
     v |-> [Category |-> AsString(o.category), Delivery |-> AsString(o.delivery),
            Flags |-> AsFlags(o.flags), Id |-> AsInt(o.id),
            Joke |-> AsString(o.joke), Lang |-> AsString(o.lang),
            Safe |-> AsBool(o.safe), Setup |-> AsString(o.setup),
            Type |-> AsString(o.type)]]

\* Joke.String
JokeString(j) ==
    IF j.Type = Twopart THEN j.Setup \o <<"\n">> \o j.Delivery ELSE j.Joke

\* a []Joke: nil, or a slice with its elements
NilJokes == [nil |-> TRUE, s |-> <<>>]
SliceOf(s) == [nil |-> FALSE, s |-> s]

\* an element of a `jokes` array decoded into a Joke: an object is decoded,
\* a null leaves the zero Joke, anything else does not fit
FitsJokeItem(it) ==
    \/ it.t = "null"
    \/ it.t = "obj" /\ UnmarshalJoke(it.o).ok
AsJokeItem(it) == IF it.t = "obj" THEN UnmarshalJoke(it.o).v ELSE ZeroJoke

\* json.Unmarshal of an object into a Jokes (the list wrapper)
UnmarshalJokes(o) ==
    [ok |-> /\ o.jokes.t \in {"absent", "null", "arr"}
            /\ o.jokes.t = "arr" =>
                   \A i \in 1..Len(o.jokes.a) : FitsJokeItem(o.jokes.a[i]),
     v |-> IF o.jokes.t = "arr"
               THEN SliceOf([i \in 1..Len(o.jokes.a) |-> AsJokeItem(o.jokes.a[i])])
               ELSE NilJokes]

\* json.Unmarshal of an object into an ErrorResponse
UnmarshalErrorResponse(o) ==
    [ok |-> /\ FitsStrings(o.causedBy) /\ FitsInt(o.code)
            /\ FitsString(o.additionalInfo) /\ FitsBool(o.internalError)
            /\ FitsString(o.message) /\ FitsInt(o.timestamp),
     v |-> [Cause |-> AsStrings(o.causedBy), Code |-> AsInt(o.code),
            Info |-> AsString(o.additionalInfo),
            Internal |-> AsBool(o.internalError),
            Message |-> AsString(o.message), Time |-> AsInt(o.timestamp)]]

\* ErrorResponse.Error
ErrorResponseText(r) == r.Message \o <<":", " ">> \o r.Info

\* an ErrorResponse returned as an error
ErrorResponseError(r) == MkError("ErrorResponse", ErrorResponseText(r), r)

\* json.Unmarshal into map[string]json.RawMessage: invalid text and a
\* top-level value that is neither an object nor null are errors; null
\* leaves the map nil
UnmarshalRaw(p) ==
    CASE p.top = "invalid" -> [e |-> SyntaxError, hasError |-> FALSE, hasAmount |-> FALSE]
      [] p.top = "array"   -> [e |-> UnmarshalTypeError, hasError |-> FALSE, hasAmount |-> FALSE]
      [] p.top = "null"    -> [e |-> NilError, hasError |-> FALSE, hasAmount |-> FALSE]
      [] OTHER             -> [e |-> NilError, hasError |-> Has(p.o.error),
                               hasAmount |-> Has(p.o.amount)]

NoErrorPropertyText ==
    <<"r", "e", "s", "p", "o", "n", "s", "e", " ", "h", "a", "s", " ", "n", "o",
      " ", "\"", "e", "r", "r", "o", "r", "\"", " ", "p", "r", "o", "p", "e",
      "r", "t", "y">>

Returns(j, e) == [r |-> j, e |-> e]

\* ParseResponse looking at `amount` before `error`
ParseResponse_AmountFirst(p) ==
    LET raw == UnmarshalRaw(p) IN
    IF raw.e # NilError THEN Returns(NilJokes, raw.e)
    ELSE IF ~raw.hasError THEN Returns(NilJokes, ErrorString(NoErrorPropertyText))
    ELSE IF ~FitsBool(p.o.error) THEN Returns(NilJokes, UnmarshalTypeError)
    ELSE IF raw.hasAmount THEN
        IF UnmarshalJokes(p.o).ok
            THEN Returns(UnmarshalJokes(p.o).v, NilError)
            ELSE Returns(NilJokes, UnmarshalTypeError)
    ELSE IF AsBool(p.o.error) THEN
        IF UnmarshalErrorResponse(p.o).ok
            THEN Returns(NilJokes, ErrorResponseError(UnmarshalErrorResponse(p.o).v))
            ELSE Returns(NilJokes, UnmarshalTypeError)
    ELSE
        IF UnmarshalJoke(p.o).ok
            THEN Returns(SliceOf(<<UnmarshalJoke(p.o).v>>), NilError)
            ELSE Returns(NilJokes, UnmarshalTypeError)

\* ParseResponse assigning the decoded list before looking at the decode error
ParseResponse_KeepsPartial(p) ==
    LET raw == UnmarshalRaw(p) IN
    IF raw.e # NilError THEN Returns(NilJokes, raw.e)
    ELSE IF ~raw.hasError THEN Returns(NilJokes, ErrorString(NoErrorPropertyText))
    ELSE IF ~FitsBool(p.o.error) THEN Returns(NilJokes, UnmarshalTypeError)
    ELSE IF AsBool(p.o.error) THEN
        IF UnmarshalErrorResponse(p.o).ok
            THEN Returns(NilJokes, ErrorResponseError(UnmarshalErrorResponse(p.o).v))
            ELSE Returns(NilJokes, UnmarshalTypeError)
    ELSE IF raw.hasAmount THEN
        Returns(UnmarshalJokes(p.o).v,
                IF UnmarshalJokes(p.o).ok THEN NilError ELSE UnmarshalTypeError)
    ELSE
        IF UnmarshalJoke(p.o).ok
            THEN Returns(SliceOf(<<UnmarshalJoke(p.o).v>>), NilError)
            ELSE Returns(NilJokes, UnmarshalTypeError)

ParseResponse(p) ==
    LET raw == UnmarshalRaw(p) IN
    IF raw.e # NilError THEN Returns(NilJokes, raw.e)
    ELSE IF ~raw.hasError THEN Returns(NilJokes, ErrorString(NoErrorPropertyText))
    ELSE IF ~FitsBool(p.o.error) THEN Returns(NilJokes, UnmarshalTypeError)
    ELSE IF AsBool(p.o.error) THEN
        IF UnmarshalErrorResponse(p.o).ok
            THEN Returns(NilJokes, ErrorResponseError(UnmarshalErrorResponse(p.o).v))
            ELSE Returns(NilJokes, UnmarshalTypeError)
    ELSE IF raw.hasAmount THEN
        IF UnmarshalJokes(p.o).ok
            THEN Returns(UnmarshalJokes(p.o).v, NilError)
            ELSE Returns(NilJokes, UnmarshalTypeError)
    ELSE
        IF UnmarshalJoke(p.o).ok
            THEN Returns(SliceOf(<<UnmarshalJoke(p.o).v>>), NilError)
            ELSE Returns(NilJokes, UnmarshalTypeError)

-----------------------------------------------------------------------------
(* The payloads the transport may deliver *)

StrX == <<"x">>
StrMessage == <<"m">>
StrInfo == <<"i">>

JokeKeys(category, delivery, flags, id, joke, lang, safe, setup, type) ==
    [category |-> category, delivery |-> delivery, flags |-> flags, id |-> id,
     joke |-> joke, lang |-> lang, safe |-> safe, setup |-> setup, type |-> type]

ErrorKeys(causedBy, code, additionalInfo, internalError, message, timestamp) ==
    [causedBy |-> causedBy, code |-> code, additionalInfo |-> additionalInfo,
     internalError |-> internalError, message |-> message,
     timestamp |-> timestamp]

NoFlags == JFlags("absent", <<>>)
NoArr == JArr("absent", <<>>)

NoJokeKeys ==
    JokeKeys(Absent, Absent, NoFlags, Absent, Absent, Absent, Absent, Absent, Absent)
SingleJokeKeys ==
    JokeKeys(JStr(Pun), Absent, JFlags("obj", [f \in {Nsfw, Racist} |-> f = Racist]),
             JNum(7), JStr(StrX), JStr(En), JBool(TRUE), Absent, JStr(Single))
TwopartJokeKeys ==
    JokeKeys(JStr(Misc), JStr(<<"d", "!">>), JFlags("null", <<>>), JNum(8), JNull,
             JStr(De), JBool(FALSE), JStr(<<"s", "?">>), JStr(Twopart))
\* an id that is a JSON string does not fit the int field
BadIdJokeKeys ==
    JokeKeys(Absent, Absent, NoFlags, JStr(StrX), JStr(StrX), Absent, Absent,
             Absent, JStr(Single))

NoErrorKeys == ErrorKeys(NoArr, Absent, Absent, Absent, Absent, Absent)
GoodErrorKeys ==
    ErrorKeys(JArr("arr", <<JStr(StrX)>>), JNum(106), JStr(StrInfo),
              JBool(FALSE), JStr(StrMessage), JNum(1))
\* a code that is a JSON string does not fit the int field
BadErrorKeys ==
    ErrorKeys(NoArr, JStr(StrX), JStr(StrInfo), Absent, JStr(StrMessage), Absent)

JItem(t, o) == [t |-> t, o |-> o]
JokeItems ==
    {JItem("obj", SingleJokeKeys), JItem("null", NoJokeKeys),
     JItem("obj", BadIdJokeKeys)}

JokesValues ==
    {NoArr, JArr("null", <<>>), JArr("str", <<>>)}
        \cup {JArr("arr", a) : a \in SeqsUpTo(JokeItems, MaxJokes)}


\* a top-level object with the given keys
Object(error, amount, jokes, jk, ek) ==
    [error |-> error, amount |-> amount, jokes |-> jokes,
     category |-> jk.category, delivery |-> jk.delivery, flags |-> jk.flags,
     id |-> jk.id, joke |-> jk.joke, lang |-> jk.lang, safe |-> jk.safe,
     setup |-> jk.setup, type |-> jk.type,
     causedBy |-> ek.causedBy, code |-> ek.code,
     additionalInfo |-> ek.additionalInfo, internalError |-> ek.internalError,
     message |-> ek.message, timestamp |-> ek.timestamp]

EmptyObject == Object(Absent, Absent, NoArr, NoJokeKeys, NoErrorKeys)

Payload(top, o) == [top |-> top, o |-> o]

Payloads ==
    {Payload(t, EmptyObject) : t \in {"invalid", "array", "null"}}
        \cup {Payload("object", Object(e, a, js, jk, ek)) :
                 e \in {Absent, JBool(TRUE), JBool(FALSE), JNull, JStr(StrX)},
                 a \in {Absent, JNum(2)},
                 js \in JokesValues,
                 jk \in {NoJokeKeys, SingleJokeKeys, TwopartJokeKeys, BadIdJokeKeys},
                 ek \in {NoErrorKeys, GoodErrorKeys, BadErrorKeys}}

NoPayload == Payload("none", EmptyObject)
NoIO ==
    /\ res = [e |-> NilError, body |-> NoPayload]
    /\ jsn = [e |-> NilError, bytes |-> NoPayload]
    /\ ret = Returns(NilJokes, NilError)

-----------------------------------------------------------------------------
(* Specification of the setters: a Request from NewRequest(), changed only *)
(* through Blacklist.Add, Category.Add, Lang.Set and Type.Set              *)

Room == Len(req.Blacklist) + Len(req.Category) < MaxAdds

NotSetterVars ==
    <<applied, query, out, pc, client, gets, parses, res, jsn, ret, idarg>>

BlacklistAdd(f) ==
    /\ f \in FlagVocab => Room
    /\ req' = [req EXCEPT !.Blacklist = FlagsAdd(req.Blacklist, f).recv]
    /\ err' = FlagsAdd(req.Blacklist, f).err
    /\ call' = [op |-> "Flags.Add", arg |-> f]
    /\ UNCHANGED NotSetterVars

CategoryAdd(c) ==
    /\ c \in CategoryVocab => Room
    /\ req' = [req EXCEPT !.Category = CategoriesAdd(req.Category, c).recv]
    /\ err' = CategoriesAdd(req.Category, c).err
    /\ call' = [op |-> "Categories.Add", arg |-> c]
    /\ UNCHANGED NotSetterVars

ReqLangSet(l) ==
    /\ req' = [req EXCEPT !.Lang = LangSet(req.Lang, l).recv]
    /\ err' = LangSet(req.Lang, l).err
    /\ call' = [op |-> "Lang.Set", arg |-> l]
    /\ UNCHANGED NotSetterVars

ReqTypeSet(t) ==
    /\ req' = [req EXCEPT !.Type = TypeSet(req.Type, t).recv]
    /\ err' = TypeSet(req.Type, t).err
    /\ call' = [op |-> "Type.Set", arg |-> t]
    /\ UNCHANGED NotSetterVars

\* the list setters are tried with part of their vocabulary, every invalid
\* input, and a token of another vocabulary
FlagInputs     == {Nsfw, Political, Explicit, Racist} \cup InvalidInputs \cup {Dark}
CategoryInputs == {Any, Dark, Pun, Programming} \cup InvalidInputs \cup {Nsfw}
LangInputs     == LangVocab \cup InvalidInputs \cup {Single}
TypeInputs     == TypeVocab \cup InvalidInputs \cup {En}

Init ==
    /\ req = NewRequest
    /\ call = NoCall
    /\ err = NilError
    /\ Idle
    /\ NoIO

Next ==
    \/ \E f \in FlagInputs : BlacklistAdd(f)
    \/ \E c \in CategoryInputs : CategoryAdd(c)
    \/ \E l \in LangInputs : ReqLangSet(l)
    \/ \E t \in TypeInputs : ReqTypeSet(t)

Spec == Init /\ [][Next]_vars

-----------------------------------------------------------------------------
(* Properties of the setters, under Spec *)

VocabOf(op) ==
    CASE op = "Flags.Add"      -> FlagVocab
      [] op = "Categories.Add" -> CategoryVocab
      [] op = "Lang.Set"       -> LangVocab
      [] op = "Type.Set"       -> TypeVocab
      [] OTHER                 -> {}

PrefixOf(op) ==
    CASE op = "Flags.Add"      -> InvalidFlagPrefix
      [] op = "Categories.Add" -> InvalidCategoryPrefix
      [] op = "Lang.Set"       -> InvalidLangPrefix
      [] op = "Type.Set"       -> InvalidTypePrefix
      [] OTHER                 -> EmptyStr

DoubleQuote == <<"\"">>

\* the last setter call was given a string outside its vocabulary
InvalidCall == call.op # "none" /\ call.arg \notin VocabOf(call.op)

\* s has no character that %q writes differently
PlainStr(s) == \A i \in 1..Len(s) : s[i] \notin {"\"", "\\", "\n"}

\* C1 as stated: a setter given a string outside its vocabulary returns an
\* error whose text is `invalid <kind>: "<value>"`, the value copied between
\* the double quotes as it is.
C1_TextVerbatim ==
    InvalidCall =>
        /\ err.kind = "errorString"
        /\ err.text = PrefixOf(call.op) \o DoubleQuote \o call.arg \o DoubleQuote

C1_ErrorText ==
    InvalidCall =>
        /\ err.kind = "errorString"
        /\ Len(err.text) >= Len(PrefixOf(call.op)) + 2
        /\ SubSeq(err.text, 1, Len(PrefixOf(call.op))) = PrefixOf(call.op)
        /\ LET q == SubSeq(err.text, Len(PrefixOf(call.op)) + 1, Len(err.text)) IN
               /\ q = Quote(call.arg)
               /\ PlainStr(call.arg) => q = DoubleQuote \o call.arg \o DoubleQuote
               /\ ~PlainStr(call.arg) => Len(q) > Len(call.arg) + 2

C1_ReceiverUnchanged == InvalidCall' => req' = req

\* C1 (amended): a setter given a string outside its vocabulary returns a
\* non-nil error whose text is `invalid <kind>: ` followed by the value as a
\* Go-quoted string (%q): the value between double quotes when it has no
\* double quote, backslash or newline, and with those characters
\* backslash-escaped otherwise; the receiver (and the rest of the Request)
\* is left exactly as it was before the call.
C1_InvalidSetterRejected == []C1_ErrorText /\ [][C1_ReceiverUnchanged]_vars

\* an invalid Flags.Add with a value that needs escaping, on a list that
\* already holds a flag
C1_Witness ==
    /\ call = [op |-> "Flags.Add", arg |-> StrQuoted]
    /\ req.Blacklist = <<Political>>
    /\ err.kind = "errorString"

\* C2: in every state reached from NewRequest() through the validated
\* setters, every element of Blacklist is a flag token, every element of
\* Category is a category token, Lang is unset or a language token and Type
\* is unset or a type token.
C2_FieldsInVocabulary ==
    /\ \A i \in 1..Len(req.Blacklist) : req.Blacklist[i] \in FlagVocab
    /\ \A i \in 1..Len(req.Category) : req.Category[i] \in CategoryVocab
    /\ req.Lang = EmptyStr \/ req.Lang \in LangVocab
    /\ req.Type = EmptyStr \/ req.Type \in TypeVocab

\* every field set, and the last call an invalid Lang.Set
C2_Witness ==
    /\ Len(req.Blacklist) = 1
    /\ Len(req.Category) = 1
    /\ req.Lang = Pt
    /\ req.Type = Twopart
    /\ call = [op |-> "Lang.Set", arg |-> StrInvalid]

NoDuplicates(s) == \A i, j \in 1..Len(s) : s[i] = s[j] => i = j

\* C10 as stated: Blacklist and Category are ordered sets: no token occurs
\* more than once in either.
C10_NoDuplicates == NoDuplicates(req.Blacklist) /\ NoDuplicates(req.Category)

C10_Appends ==
    /\ (call'.op = "Flags.Add" /\ call'.arg \in FlagVocab) =>
           /\ req'.Blacklist = Append(req.Blacklist, call'.arg)
           /\ req'.Category = req.Category
    /\ (call'.op = "Categories.Add" /\ call'.arg \in CategoryVocab) =>
           /\ req'.Category = Append(req.Category, call'.arg)
           /\ req'.Blacklist = req.Blacklist
    /\ (call'.op \notin {"Flags.Add", "Categories.Add"}
            \/ call'.arg \notin VocabOf(call'.op)) =>
           /\ req'.Blacklist = req.Blacklist
           /\ req'.Category = req.Category

\* C10 (amended): Blacklist and Category are ordered lists, not sets: every
\* Add of a valid token appends it at the end, also when the list already
\* holds it, and no call removes or reorders the elements already there; a
\* token added k times occurs k times.
C10_ListsAppendOnly == [][C10_Appends]_vars

\* the same category added twice
C10_Witness ==
    /\ req.Category = <<Dark, Dark>>
    /\ call = [op |-> "Categories.Add", arg |-> Dark]

-----------------------------------------------------------------------------
(* Specification of the pure methods: a Request built field by field, as   *)
(* the tests and the command line do, to which Query, URL and the String   *)
(* methods are applied                                                     *)

StrContains == <<"a", " ", "&", "b">>

QueryRequests ==
    {[Amount |-> a, Blacklist |-> b, Category |-> c, Contains |-> t, ID |-> i,
      Lang |-> l, Safe |-> f, Type |-> y] :
        a \in {-1, 0, 5},
        b \in SeqsUpTo({Nsfw, Political}, MaxList),
        c \in SeqsUpTo({Dark, Pun}, MaxList),
        t \in {EmptyStr, StrContains},
        i \in {NilID, IDRangeOf(0, 0), IDRangeOf(1, 0), IDRangeOf(2, 32),
               IDRangeOf(42, 1024)},
        l \in {EmptyStr, Pt},
        f \in BOOLEAN,
        y \in {EmptyStr, Twopart}}

NotPureVars == <<call, err, pc, client, gets, parses, res, jsn, ret>>

DoQuery ==
    /\ applied' = "Query"
    /\ query' = Query(req)
    /\ out' = EmptyStr
    /\ UNCHANGED <<req, idarg>>
    /\ UNCHANGED NotPureVars

DoURL ==
    /\ applied' = "URL"
    /\ out' = URL(req)
    /\ query' = NoValues
    /\ UNCHANGED <<req, idarg>>
    /\ UNCHANGED NotPureVars

DoFlagsString ==
    /\ applied' = "Flags.String"
    /\ out' = FlagsString(req.Blacklist)
    /\ query' = NoValues
    /\ UNCHANGED <<req, idarg>>
    /\ UNCHANGED NotPureVars

DoCategoriesString ==
    /\ applied' = "Categories.String"
    /\ out' = CategoriesString(req.Category)
    /\ query' = NoValues
    /\ UNCHANGED <<req, idarg>>
    /\ UNCHANGED NotPureVars

DoIDRangeString ==
    /\ ~req.ID.nil
    /\ applied' = "IDRange.String"
    /\ out' = IDRangeString(req.ID)
    /\ query' = NoValues
    /\ UNCHANGED <<req, idarg>>
    /\ UNCHANGED NotPureVars

\* j.ID = ID(n)
DoID(n) ==
    /\ idarg = NoArg
    /\ applied' = "ID"
    /\ req' = [req EXCEPT !.ID = ID(n)]
    /\ idarg' = <<n>>
    /\ out' = EmptyStr
    /\ query' = NoValues
    /\ UNCHANGED NotPureVars

InitQuery ==
    /\ req \in QueryRequests
    /\ call = NoCall
    /\ err = NilError
    /\ Idle
    /\ NoIO

NextQuery ==
    \/ DoQuery
    \/ DoURL
    \/ DoFlagsString
    \/ DoCategoriesString
    \/ DoIDRangeString
    \/ \E n \in {0, 64} : DoID(n)

SpecQuery == InitQuery /\ [][NextQuery]_vars

-----------------------------------------------------------------------------
(* Properties of the pure methods, under SpecQuery *)

RECURSIVE DecimalValue(_)
\* the number a string of digits denotes
DecimalValue(s) ==
    IF s = <<>> THEN 0
    ELSE 10 * DecimalValue(SubSeq(s, 1, Len(s) - 1))
             + ((CHOOSE d \in 1..10 : DigitChars[d] = s[Len(s)]) - 1)

\* s is the decimal of the natural number n: digits only, no leading zero
IsDecimalOf(s, n) ==
    /\ Len(s) >= 1
    /\ \A i \in 1..Len(s) : \E d \in 1..10 : DigitChars[d] = s[i]
    /\ Len(s) > 1 => s[1] # "0"
    /\ DecimalValue(s) = n

\* number of occurrences of character c in s
Count(c, s) == Cardinality({i \in 1..Len(s) : s[i] = c})

RECURSIVE SplitCommas(_)
\* the pieces of s between its commas
SplitCommas(s) ==
    IF \A i \in 1..Len(s) : s[i] # "," THEN <<s>>
    ELSE LET c == CHOOSE i \in 1..Len(s) :
                      s[i] = "," /\ \A k \in 1..(i - 1) : s[k] # ","
         IN  <<SubSeq(s, 1, c - 1)>> \o SplitCommas(SubSeq(s, c + 1, Len(s)))

\* s is the tokens of list joined by single commas, in list order
IsCommaJoin(s, list) ==
    IF Len(list) = 0 THEN s = EmptyStr
    ELSE /\ Count(",", s) = Len(list) - 1
         /\ s[1] # ","
         /\ s[Len(s)] # ","
         /\ SplitCommas(s) = list

\* s renders the range r: the lower bound alone when Upper is 0, else
\* lower-upper
IsRangeOf(s, r) ==
    IF r.Upper = 0 THEN IsDecimalOf(s, r.Lower)
    ELSE \E i \in 1..Len(s) :
             /\ s[i] = "-"
             /\ IsDecimalOf(SubSeq(s, 1, i - 1), r.Lower)
             /\ IsDecimalOf(SubSeq(s, i + 1, Len(s)), r.Upper)

AllKeys == {KeyAmount, KeyBlacklist, KeyContains, KeyIDRange, KeyLang, KeySafe, KeyType}

\* C3: Query() holds a key iff its field is set (amount iff Amount > 0,
\* blacklistFlags iff Blacklist is non-empty, contains iff Contains is
\* non-empty, idRange iff ID is non-nil, lang iff Lang is non-empty,
\* safe-mode iff Safe, type iff Type is non-empty), holds no other key, maps
\* each key to exactly one value, the rendering of the field (the empty
\* string for safe-mode), and is empty when no field is set; Category adds
\* no key.
C3_QueryHoldsTheSetFields ==
    applied = "Query" =>
        /\ DOMAIN query \subseteq AllKeys
        /\ \A k \in DOMAIN query : Len(query[k]) = 1
        /\ KeyAmount \in DOMAIN query <=> req.Amount > 0
        /\ KeyAmount \in DOMAIN query => IsDecimalOf(query[KeyAmount][1], req.Amount)
        /\ KeyBlacklist \in DOMAIN query <=> Len(req.Blacklist) > 0
        /\ KeyBlacklist \in DOMAIN query =>
               IsCommaJoin(query[KeyBlacklist][1], req.Blacklist)
        /\ KeyContains \in DOMAIN query <=> req.Contains # EmptyStr
        /\ KeyContains \in DOMAIN query => query[KeyContains][1] = req.Contains
        /\ KeyIDRange \in DOMAIN query <=> ~req.ID.nil
        /\ KeyIDRange \in DOMAIN query => IsRangeOf(query[KeyIDRange][1], req.ID)
        /\ KeyLang \in DOMAIN query <=> req.Lang # EmptyStr
        /\ KeyLang \in DOMAIN query => query[KeyLang][1] = req.Lang
        /\ KeySafe \in DOMAIN query <=> req.Safe
        /\ KeySafe \in DOMAIN query => query[KeySafe][1] = EmptyStr
        /\ KeyType \in DOMAIN query <=> req.Type # EmptyStr
        /\ KeyType \in DOMAIN query => query[KeyType][1] = req.Type
        /\ (/\ req.Amount <= 0 /\ req.Blacklist = <<>> /\ req.Contains = EmptyStr
            /\ req.ID.nil /\ req.Lang = EmptyStr /\ ~req.Safe
            /\ req.Type = EmptyStr) => query = NoValues

\* Query() of a Request with a category and only Amount and Lang set
C3_Witness ==
    /\ applied = "Query"
    /\ req.Category = <<Dark>>
    /\ req.Amount = 5
    /\ req.Lang = Pt
    /\ DOMAIN query = {KeyAmount, KeyLang}
    /\ query[KeyAmount] = << <<"5">> >>

BaseText == <<"h", "t", "t", "p", "s", ":", "/", "/", "v", "2", ".", "j", "o", "k", "e", "a", "p", "i", ".", "d", "e", "v", "/">>
UrlDarkPun == <<"h", "t", "t", "p", "s", ":", "/", "/", "v", "2", ".", "j", "o", "k", "e", "a", "p", "i", ".", "d", "e", "v", "/", "j", "o", "k", "e", "/", "D", "a", "r", "k", ",", "P", "u", "n">>
UrlAnySafe == <<"h", "t", "t", "p", "s", ":", "/", "/", "v", "2", ".", "j", "o", "k", "e", "a", "p", "i", ".", "d", "e", "v", "/", "j", "o", "k", "e", "/", "A", "n", "y", "?", "a", "m", "o", "u", "n", "t", "=", "5", "&", "c", "o", "n", "t", "a", "i", "n", "s", "=", "a", "+", "%", "2", "6", "b", "&", "s", "a", "f", "e", "-", "m", "o", "d", "e", "=">>

\* C6: URL() is the base https://v2.jokeapi.dev/ followed by joke/<list>,
\* <list> being the comma-joined Category list, or Any when Category is
\* empty, followed by ? and the encoded Query() only when Query() is not
\* empty; Category {Dark, Pun} alone gives
\* https://v2.jokeapi.dev/joke/Dark,Pun.
C6_URLShape ==
    applied = "URL" =>
        /\ LET n == Len(BaseText) + Len(JokePath)
               q == IF \E i \in 1..Len(out) : out[i] = "?"
                        THEN CHOOSE i \in 1..Len(out) :
                                 out[i] = "?" /\ \A k \in 1..(i - 1) : out[k] # "?"
                        ELSE Len(out) + 1
           IN  /\ Len(out) > n
               /\ SubSeq(out, 1, n) = BaseText \o JokePath
               /\ IF req.Category = <<>>
                      THEN SubSeq(out, n + 1, q - 1) = Any
                      ELSE IsCommaJoin(SubSeq(out, n + 1, q - 1), req.Category)
               /\ (q <= Len(out)) <=> (Query(req) # NoValues)
               /\ SubSeq(out, q + 1, Len(out)) = Encode(Query(req))
        /\ (req = [NewRequest EXCEPT !.Category = <<Dark, Pun>>]) => out = UrlDarkPun
        /\ (req = [NewRequest EXCEPT !.Amount = 5, !.Contains = StrContains,
                                      !.Safe = TRUE]) => out = UrlAnySafe

\* URL() of a Request with no category and a query
C6_Witness ==
    /\ applied = "URL"
    /\ req = [NewRequest EXCEPT !.Amount = 5, !.Contains = StrContains, !.Safe = TRUE]
    /\ out = UrlAnySafe

\* C7: String() of a Flags or Categories list of length n is its tokens in
\* insertion order separated by exactly n-1 commas, with no leading or
\* trailing separator and no token reordered, dropped or repeated; it is
\* the empty string for n = 0.
C7_CommaJoin ==
    /\ applied = "Flags.String" => IsCommaJoin(out, req.Blacklist)
    /\ applied = "Categories.String" => IsCommaJoin(out, req.Category)

StrNsfwPolitical == <<"n", "s", "f", "w", ",", "p", "o", "l", "i", "t", "i", "c", "a", "l">>

\* String() of a list of two flags
C7_Witness ==
    /\ applied = "Flags.String"
    /\ req.Blacklist = <<Nsfw, Political>>
    /\ out = StrNsfwPolitical

\* C9: for Lower >= 0 and Upper >= 0, IDRange.String() is the decimal of
\* Lower alone when Upper is 0 and <Lower>-<Upper> otherwise ({1,0} gives 1,
\* {0,0} gives 0, {2,32} gives 2-32), and ID(n) is a range that renders as
\* n alone.
C9_RangeRendering ==
    /\ (applied = "IDRange.String" /\ req.ID.Lower >= 0 /\ req.ID.Upper >= 0) =>
           /\ IsRangeOf(out, req.ID)
           /\ req.ID = IDRangeOf(1, 0) => out = <<"1">>
           /\ req.ID = IDRangeOf(0, 0) => out = <<"0">>
           /\ req.ID = IDRangeOf(2, 32) => out = <<"2", "-", "3", "2">>
           /\ idarg # NoArg => IsDecimalOf(out, idarg[1])
    /\ applied = "ID" => req.ID = IDRangeOf(idarg[1], 0)

\* String() of the range ID(64)
C9_Witness ==
    /\ applied = "IDRange.String"
    /\ idarg = <<64>>
    /\ out = <<"6", "4">>

-----------------------------------------------------------------------------
(* Specification of Get, GetUsingClient and ParseResponse: the transport   *)
(* answers a GET with an error or a body, reading the body fails or gives  *)
(* its bytes, and the bytes are parsed                                     *)

ErrTimeout == MkError("url.Error", <<"t", "i", "m", "e", "o", "u", "t">>, ZeroErrorResponse)
ErrRefused == MkError("url.Error", <<"r", "e", "f", "u", "s", "e", "d">>, ZeroErrorResponse)
TransportErrors == {ErrTimeout, ErrRefused}

ErrUnexpectedEOF == MkError("errorString", <<"u", "n", "e", "x", "p", "e", "c", "t", "e", "d", " ", "E", "O", "F">>, ZeroErrorResponse)
ReadErrors == {ErrUnexpectedEOF}

GetRequests ==
    {NewRequest,
     [NewRequest EXCEPT !.Category = <<Dark, Pun>>, !.Amount = 2, !.Safe = TRUE]}

\* the client GetUsingClient uses
ClientUsed(c) == IF c = "nil" THEN "http.DefaultClient" ELSE c

\* where GetUsingClient goes after cli.Get returned e, retrying on failure
AfterGet_Retry(e) == IF e # NilError THEN "get" ELSE "read"

\* where GetUsingClient goes after cli.Get returned e
AfterGet(e) == IF e # NilError THEN "done" ELSE "read"

\* where GetUsingClient goes after ioutil.ReadAll returned e
AfterRead(e) == IF e # NilError THEN "done" ELSE "parse"

NotGetVars == <<req, call, err, query, out, idarg>>

\* Request.Get
Get ==
    /\ pc = "idle"
    /\ applied' = "Get"
    /\ client' = "nil"
    /\ pc' = "get"
    /\ UNCHANGED <<gets, parses, res, jsn, ret>>
    /\ UNCHANGED NotGetVars

\* Request.GetUsingClient, up to the call of the transport
GetUsingClient(c) ==
    /\ pc = "idle"
    /\ applied' = "GetUsingClient"
    /\ client' = c
    /\ pc' = "get"
    /\ UNCHANGED <<gets, parses, res, jsn, ret>>
    /\ UNCHANGED NotGetVars

\* cli.Get(url) fails with e
TransportFails(e) ==
    /\ pc = "get"
    /\ Len(gets) < MaxGets
    /\ gets' = Append(gets, [client |-> ClientUsed(client), url |-> URL(req)])
    /\ res' = [e |-> e, body |-> NoPayload]
    /\ pc' = AfterGet(e)
    /\ ret' = IF AfterGet(e) = "done" THEN Returns(NilJokes, e) ELSE ret
    /\ UNCHANGED <<applied, client, parses, jsn>>
    /\ UNCHANGED NotGetVars

\* cli.Get(url) answers with a response whose body is p
TransportAnswers(p) ==
    /\ pc = "get"
    /\ Len(gets) < MaxGets
    /\ gets' = Append(gets, [client |-> ClientUsed(client), url |-> URL(req)])
    /\ res' = [e |-> NilError, body |-> p]
    /\ pc' = AfterGet(NilError)
    /\ UNCHANGED <<applied, client, parses, jsn, ret>>
    /\ UNCHANGED NotGetVars

\* ioutil.ReadAll(res.Body) fails with e
ReadFails(e) ==
    /\ pc = "read"
    /\ jsn' = [e |-> e, bytes |-> NoPayload]
    /\ pc' = AfterRead(e)
    /\ ret' = IF AfterRead(e) = "done" THEN Returns(NilJokes, e) ELSE ret
    /\ UNCHANGED <<applied, client, gets, parses, res>>
    /\ UNCHANGED NotGetVars

\* ioutil.ReadAll(res.Body) returns the whole body
ReadSucceeds ==
    /\ pc = "read"
    /\ jsn' = [e |-> NilError, bytes |-> res.body]
    /\ pc' = AfterRead(NilError)
    /\ UNCHANGED <<applied, client, gets, parses, res, ret>>
    /\ UNCHANGED NotGetVars

\* r, e = ParseResponse(jsn) and the return
ParseAndReturn ==
    /\ pc = "parse"
    /\ parses' = Append(parses, jsn.bytes)
    /\ ret' = ParseResponse(jsn.bytes)
    /\ pc' = "done"
    /\ UNCHANGED <<applied, client, gets, res, jsn>>
    /\ UNCHANGED NotGetVars

\* ParseResponse called by the caller on bytes of its own
CallParseResponse(p) ==
    /\ pc = "idle"
    /\ applied' = "ParseResponse"
    /\ parses' = Append(parses, p)
    /\ ret' = ParseResponse(p)
    /\ pc' = "done"
    /\ UNCHANGED <<client, gets, res, jsn>>
    /\ UNCHANGED NotGetVars

InitGet ==
    /\ req \in GetRequests
    /\ call = NoCall
    /\ err = NilError
    /\ Idle
    /\ NoIO

NextGet ==
    \/ Get
    \/ \E c \in {"nil", "custom"} : GetUsingClient(c)
    \/ \E e \in TransportErrors : TransportFails(e)
    \/ \E p \in Payloads : TransportAnswers(p)
    \/ \E e \in ReadErrors : ReadFails(e)
    \/ ReadSucceeds
    \/ ParseAndReturn
    \/ \E p \in Payloads : CallParseResponse(p)

SpecGet == InitGet /\ [][NextGet]_vars

-----------------------------------------------------------------------------
(* Properties of Get, GetUsingClient and ParseResponse, under SpecGet *)

\* the payload the finished call parsed
Parsed == parses[Len(parses)]

ParsedObject == pc = "done" /\ parses # <<>> /\ Parsed.top = "object"

MalformedResponse == ErrorString(NoErrorPropertyText)

\* the jokes returned are those of the `jokes` array, in payload order
JokesOfArray(r, js) ==
    IF js.t = "arr"
        THEN /\ ~r.nil
             /\ Len(r.s) = Len(js.a)
             /\ \A i \in 1..Len(js.a) :
                    IF js.a[i].t = "obj"
                        THEN /\ r.s[i].Id = js.a[i].o.id.n
                             /\ r.s[i].Joke = js.a[i].o.joke.s
                             /\ r.s[i].Type = js.a[i].o.type.s
                             /\ r.s[i].Category = js.a[i].o.category.s
                        ELSE r.s[i] = ZeroJoke
        ELSE r = NilJokes

\* the one joke returned is decoded from the payload itself
JokeOfObject(r, o) ==
    /\ ~r.nil
    /\ Len(r.s) = 1
    /\ r.s[1].Id = o.id.n
    /\ r.s[1].Joke = o.joke.s
    /\ r.s[1].Setup = o.setup.s
    /\ r.s[1].Delivery = o.delivery.s
    /\ r.s[1].Type = o.type.s

\* the error returned is the payload as an ErrorResponse
ErrorOfObject(e, o) ==
    /\ e.kind = "ErrorResponse"
    /\ e.resp.Message = o.message.s
    /\ e.resp.Info = o.additionalInfo.s
    /\ e.resp.Code = o.code.n
    /\ e.text = o.message.s \o <<":", " ">> \o o.additionalInfo.s

\* C4 as stated: every payload that is a JSON object ends in one of four
\* outcomes chosen by the discriminators alone: `error` absent, a
\* malformed-response error; `error` true, the ErrorResponse as the error;
\* `amount` present, the jokes under `jokes`; otherwise one joke.
C4_FourOutcomes ==
    ParsedObject =>
        LET o == Parsed.o IN
        IF ~Has(o.error) THEN ret = Returns(NilJokes, MalformedResponse)
        ELSE IF o.error = JBool(TRUE) THEN ret.r = NilJokes /\ ErrorOfObject(ret.e, o)
        ELSE IF Has(o.amount) THEN ret.e = NilError /\ JokesOfArray(ret.r, o.jokes)
        ELSE ret.e = NilError /\ JokeOfObject(ret.r, o)

\* the shape the discriminators choose decodes: every key it reads holds a
\* value of the field's type, null, or is absent
ErrorShapeDecodes(o) ==
    /\ o.causedBy.t \in {"absent", "null", "arr"}
    /\ o.code.t \in {"absent", "null", "num"}
    /\ o.additionalInfo.t \in {"absent", "null", "str"}
    /\ o.internalError.t \in {"absent", "null", "bool"}
    /\ o.message.t \in {"absent", "null", "str"}
    /\ o.timestamp.t \in {"absent", "null", "num"}

JokeShapeDecodes(o) ==
    /\ o.category.t \in {"absent", "null", "str"}
    /\ o.delivery.t \in {"absent", "null", "str"}
    /\ o.flags.t \in {"absent", "null", "obj"}
    /\ o.id.t \in {"absent", "null", "num"}
    /\ o.joke.t \in {"absent", "null", "str"}
    /\ o.lang.t \in {"absent", "null", "str"}
    /\ o.safe.t \in {"absent", "null", "bool"}
    /\ o.setup.t \in {"absent", "null", "str"}
    /\ o.type.t \in {"absent", "null", "str"}

ListShapeDecodes(o) ==
    /\ o.jokes.t \in {"absent", "null", "arr"}
    /\ o.jokes.t = "arr" =>
           \A i \in 1..Len(o.jokes.a) :
               \/ o.jokes.a[i].t = "null"
               \/ o.jokes.a[i].t = "obj" /\ JokeShapeDecodes(o.jokes.a[i].o)

DecodeFailure == Returns(NilJokes, UnmarshalTypeError)

\* C4 (amended): every payload that is a JSON object ends in exactly one
\* outcome, in this order: `error` absent, the malformed-response error;
\* `error` neither a boolean nor null, a decode error; `error` true, the
\* payload decoded as an ErrorResponse returned as the error (whether or
\* not `amount` is present), or a decode error when it does not decode as
\* one; `amount` present, the jokes under `jokes` in payload order and of
\* the same length (none when `jokes` is absent or null), or a decode error
\* when the list wrapper does not decode; otherwise one joke decoded from
\* the payload, or a decode error when it does not decode as a Joke.  Every
\* error outcome returns no jokes.
C4_Dispatch ==
    ParsedObject =>
        LET o == Parsed.o IN
        IF ~Has(o.error) THEN ret = Returns(NilJokes, MalformedResponse)
        ELSE IF o.error.t \notin {"bool", "null"} THEN ret = DecodeFailure
        ELSE IF o.error = JBool(TRUE) THEN
            IF ErrorShapeDecodes(o)
                THEN ret.r = NilJokes /\ ErrorOfObject(ret.e, o)
                ELSE ret = DecodeFailure
        ELSE IF Has(o.amount) THEN
            IF ListShapeDecodes(o)
                THEN ret.e = NilError /\ JokesOfArray(ret.r, o.jokes)
                ELSE ret = DecodeFailure
        ELSE
            IF JokeShapeDecodes(o)
                THEN ret.e = NilError /\ JokeOfObject(ret.r, o)
                ELSE ret = DecodeFailure

\* an error payload that also has `amount` and a `jokes` array, fetched by Get
C4_Witness ==
    /\ ParsedObject
    /\ gets # <<>>
    /\ Parsed.o.error = JBool(TRUE)
    /\ Has(Parsed.o.amount)
    /\ Parsed.o.jokes.t = "arr" /\ Len(Parsed.o.jokes.a) = 2
    /\ Parsed.o.message = JStr(StrMessage)
    /\ ret.e.kind = "ErrorResponse"
    /\ ret.e.text = <<"m", ":", " ", "i">>

\* C5: whenever ParseResponse, Get or GetUsingClient returns a non-nil
\* error, on whatever path, the joke sequence it returns is nil.
C5_NoJokesWithError ==
    (pc = "done" /\ ret.e # NilError) => (ret.r.nil /\ ret.r.s = <<>>)

\* a list payload whose first joke decodes and whose second does not
C5_Witness ==
    /\ ParsedObject
    /\ applied = "Get"
    /\ Parsed.o.error = JBool(FALSE)
    /\ Has(Parsed.o.amount)
    /\ Parsed.o.jokes = JArr("arr", <<JItem("obj", SingleJokeKeys),
                                       JItem("obj", BadIdJokeKeys)>>)
    /\ ret.e = UnmarshalTypeError
    /\ ret.r = NilJokes

FromGet == applied \in {"Get", "GetUsingClient"}

\* C8: a call of Get/GetUsingClient issues exactly one GET, to the client
\* given (the default client when none is), for URL(), and never a second;
\* a transport error or a body-read error is returned unchanged without
\* ParseResponse being invoked; ParseResponse is invoked at most once, and
\* only on the body read in full.
C8_OneGetOneParse ==
    FromGet =>
        /\ Len(gets) <= 1
        /\ pc \in {"read", "parse", "done"} => Len(gets) = 1
        /\ \A i \in 1..Len(gets) :
               /\ gets[i].url = URL(req)
               /\ gets[i].client =
                      IF client = "nil" THEN "http.DefaultClient" ELSE "custom"
        /\ applied = "Get" => client = "nil"
        /\ Len(parses) <= 1
        /\ (pc = "done" /\ res.e # NilError) => (ret.e = res.e /\ parses = <<>>)
        /\ (pc = "done" /\ jsn.e # NilError) => (ret.e = jsn.e /\ parses = <<>>)
        /\ parses # <<>> =>
               /\ pc = "done"
               /\ res.e = NilError
               /\ jsn = [e |-> NilError, bytes |-> res.body]
               /\ parses = <<res.body>>

\* GetUsingClient with a client of the caller's, ended by a transport error
C8_Witness ==
    /\ applied = "GetUsingClient"
    /\ client = "custom"
    /\ pc = "done"
    /\ ret.e = ErrTimeout
    /\ Len(gets) = 1
    /\ parses = <<>>

====
